---- MODULE Spec2Model ----
(***************************************************************************)
(* Model of the two Ansible modules of the repository:                     *)
(*   plugins/modules/rgw_users.py    reconciles one RGW user               *)
(*   plugins/modules/rgw_buckets.py  creates/deletes a bucket and a policy *)
(* One behaviour is a series of invocations of one module with one set of  *)
(* parameters against a backend that keeps its contents in between.  Each  *)
(* action is one backend call of main() together with the local code that  *)
(* runs up to the next backend call.                                       *)
(***************************************************************************)
EXTENDS Integers, Sequences, FiniteSets, TLC

VARIABLES
    module,        \* "rgw_users" or "rgw_buckets": which main() runs
    params,        \* module.params
    check_mode,    \* module.check_mode
    diff_mode,     \* module._diff
    rgw_users,     \* backend: uid -> user info or Null
    s3_buckets,    \* backend: names of the existing buckets
    iam_policies,  \* backend: names of the existing policies
    pc,            \* position of main()
    result,        \* the result dict of main()
    before_user,   \* rgw_users.main: before_user (Null for None)
    calls,         \* backend calls issued by this invocation, in order
    exc,           \* exception that left main() unhandled, or None
    output,        \* kwargs handed to exit_json / fail_json, or Null
    run,           \* number of this invocation
    prev,          \* how the previous invocation ended, or Null
    pre            \* backend contents when this invocation started

vars == <<module, params, check_mode, diff_mode, rgw_users, s3_buckets,
          iam_policies, pc, result, before_user, calls, exc, output, run,
          prev, pre>>

\* Number of invocations in a row that a behaviour follows.
MaxRuns == 2

\* Python's None as a field value, and as a value where dicts are expected.
None == "<None>"
Null == [none |-> TRUE]

\* user_max_buckets default of the argument spec.
DefaultMaxBuckets == 1000

(***************************************************************************)
(* Inputs                                                                  *)
(***************************************************************************)
UserIds      == {"alice"}
Tenants      == {None, "t1"}
DisplayNames == {None, "Alice"}
Emails       == {None, "a@x"}
AccessKeys   == {"K1", "K2"}
SecretOf(k)  == IF k = "K1" THEN "S1" ELSE IF k = "K2" THEN "S2" ELSE "SG"
States       == {"present", "absent"}

\* argument_spec of rgw_users.main, with required_together applied to the
\* credential pair.
UserParams ==
    { [state |-> st, user_id |-> u, user_tenant |-> t,
       user_display_name |-> dn, user_email |-> em,
       user_access_key |-> ak,
       user_secret_key |-> (IF ak = None THEN None ELSE SecretOf(ak)),
       user_max_buckets |-> DefaultMaxBuckets, user_suspended |-> su,
       admin_caps |-> None] :
      st \in States, u \in UserIds, t \in Tenants, dn \in DisplayNames,
      em \in Emails, ak \in AccessKeys \cup {None}, su \in {0, 1} }

\* argument_spec of rgw_buckets.main.
BucketParams ==
    { [state |-> st, bucket_name |-> b, policy_name |-> pn,
       policy_document |-> pd, policy_arn |-> pa] :
      st \in States, b \in {None, "my-test-bucket"},
      pn \in {None, "my-test-policy"}, pd \in {None, "{}"},
      pa \in {None, "arn:aws:iam::aws:policy/my-test-policy"} }

(***************************************************************************)
(* rgw_users.py: pure helpers                                              *)
(***************************************************************************)
\* get_user_params: the uid of the desired user.
EffectiveUid(p) ==
    IF p.user_tenant = None
    THEN p.user_id
    ELSE p.user_tenant \o "$" \o p.user_id

\* Variant: the second call of get_user_params drops the tenant.
get_user_params_bare(p, add_user_id) ==
    LET base == [uid |-> IF add_user_id THEN p.user_id ELSE EffectiveUid(p),
                 display_name |-> p.user_display_name,
                 email |-> p.user_email,
                 max_buckets |-> p.user_max_buckets,
                 suspended |-> p.user_suspended,
                 user_caps |-> p.admin_caps]
        ids  == IF add_user_id
                THEN [user_id |-> p.user_id, tenant |-> p.user_tenant]
                ELSE << >>
        keys == IF p.user_access_key # None
                THEN [access_key |-> p.user_access_key,
                      secret_key |-> p.user_secret_key]
                ELSE << >>
    IN  keys @@ ids @@ base

\* get_user_params(params, add_user_id).
get_user_params(p, add_user_id) ==
    LET base == [uid |-> EffectiveUid(p),
                 display_name |-> p.user_display_name,
                 email |-> p.user_email,
                 max_buckets |-> p.user_max_buckets,
                 suspended |-> p.user_suspended,
                 user_caps |-> p.admin_caps]
        ids  == IF add_user_id
                THEN [user_id |-> p.user_id, tenant |-> p.user_tenant]
                ELSE << >>
        keys == IF p.user_access_key # None
                THEN [access_key |-> p.user_access_key,
                      secret_key |-> p.user_secret_key]
                ELSE << >>
    IN  keys @@ ids @@ base

\* d without the key k (dict.pop / del on a key that is present).
Without(d, k) == [f \in (DOMAIN d) \ {k} |-> d[f]]

\* main, line 309.
newuser_params(p) == get_user_params(p, FALSE)

\* main, lines 310-312: the copy is taken before "uid" is popped, so only
\* "user_caps" is missing from it.
newuser_params_wo_caps(p) == Without(get_user_params(p, TRUE), "user_caps")

\* main, lines 310 and 313: newuser_params_user_id after uid was popped.
newuser_params_user_id(p) == Without(get_user_params(p, TRUE), "uid")

\* main, line 313.
uid_of(p) == get_user_params(p, TRUE).uid

\* get_user, lines 169-171, for one string-valued field.  The integer
\* fields (max_buckets, suspended) never equal "", "None" or [].
NormField(v) == IF v = "" \/ v = "None" THEN None ELSE v

\* get_user, lines 160-177: the userout dict built from a found user.
UserOut(user) ==
    LET base == [user_id |-> NormField(user.user_id),
                 tenant |-> NormField(user.tenant),
                 display_name |-> NormField(user.display_name),
                 email |-> NormField(user.email),
                 max_buckets |-> user.max_buckets,
                 suspended |-> user.suspended]
    IN  IF Len(user.keys) > 0
        THEN [access_key |-> user.keys[1].access_key,
              secret_key |-> user.keys[1].secret_key] @@ base
        ELSE base

\* get_user, lines 173-177: the credentials echoed into result.
EchoKeys(res, user) ==
    IF Len(user.keys) > 0
    THEN [access_key |-> user.keys[1].access_key,
          secret_key |-> user.keys[1].secret_key] @@ Without(Without(res, "access_key"), "secret_key")
    ELSE res

\* main, lines 318-321: does del before_user['access_key'] raise KeyError?
StripRaises(p, bu) ==
    p.user_access_key = None /\ bu # Null /\ "access_key" \notin DOMAIN bu

\* main, lines 318-321: before_user once the unmanaged credentials are
\* deleted from it.
StripCredentials(p, bu) ==
    IF p.user_access_key = None /\ bu # Null
    THEN Without(Without(bu, "access_key"), "secret_key")
    ELSE bu

\* main, lines 323-338: the changed flag.
ComputeChanged(p, bu) ==
    \/ p.state = "present" /\ bu # newuser_params_wo_caps(p)
    \/ p.state = "absent" /\ bu # Null

\* Variant: the diff is attached whenever it is requested.
DiffStepAlways(res, p, bu, diffOn) ==
    LET r1 == IF ComputeChanged(p, bu) THEN [res EXCEPT !.changed = TRUE]
              ELSE res
    IN  IF diffOn
        THEN [diff |-> [before |-> bu,
                        after |-> IF p.state = "present"
                                  THEN newuser_params_wo_caps(p)
                                  ELSE Null]] @@ r1
        ELSE r1

\* main, lines 323-338: result after the diff step.
DiffStep(res, p, bu, diffOn) ==
    IF ComputeChanged(p, bu)
    THEN LET r1 == [res EXCEPT !.changed = TRUE]
         IN  IF diffOn
             THEN [diff |-> [before |-> bu,
                             after |-> IF p.state = "present"
                                       THEN newuser_params_wo_caps(p)
                                       ELSE Null]] @@ r1
             ELSE r1
    ELSE res

\* main, lines 346-354: the first backend call of the apply step, "final"
\* when there is none, "crash" when line 352 reads before_user["access_key"]
\* of a user that has none.
ApplyStep(p, bu, changed) ==
    IF ~changed THEN "final"
    ELSE IF bu = Null /\ p.state = "present" THEN "create_user"
    ELSE IF bu # Null /\ p.state = "absent" THEN "delete_user"
    ELSE IF bu # newuser_params_user_id(p)
         THEN IF "access_key" \in DOMAIN newuser_params_user_id(p)
              THEN IF "access_key" \notin DOMAIN bu THEN "crash"
                   ELSE IF bu.access_key # newuser_params_user_id(p).access_key
                        THEN "remove_key"
                        ELSE "update_user"
              ELSE "update_user"
         ELSE "final"

\* Variant: a failed remove_key ends the apply step.
AfterRemoveKeyStop(ok) == IF ok THEN "update_user" ELSE "final"

\* main, lines 353-354: update_user follows remove_key whatever remove_key
\* did.
AfterRemoveKey(ok) == "update_user"

\* The except clauses of the helpers: msg is set and the codes are appended.
RecordError(res, msgs) ==
    [res EXCEPT !.msg = msgs[1], !.error_messages = @ \o msgs]

\* create_user / update_user, the else clause: the new credentials.
EchoNewKeys(res, user) ==
    [access_key |-> user.keys[1].access_key,
     secret_key |-> user.keys[1].secret_key] @@ Without(Without(res, "access_key"), "secret_key")

(***************************************************************************)
(* The backends, as the calls of the modules see them                      *)
(***************************************************************************)
Uids == {EffectiveUid([user_tenant |-> t, user_id |-> u]) :
            t \in Tenants, u \in UserIds}

\* The RGW admin API splits a uid "tenant$user" into its two parts.
SplitUid(uid) ==
    CHOOSE tu \in [user_tenant : Tenants, user_id : UserIds] :
        EffectiveUid(tu) = uid

\* None-valued keyword arguments are not sent; RGW reports unset text
\* fields as "".
Raw(v) == IF v = None THEN "" ELSE v

GeneratedKey == [access_key |-> "KG", secret_key |-> SecretOf("KG")]

KeyOf(np) ==
    IF "access_key" \in DOMAIN np
    THEN [access_key |-> np.access_key, secret_key |-> np.secret_key]
    ELSE GeneratedKey

\* rgw.create_user(**newuser_params), successful.
CreatedUser(np) ==
    [user_id |-> SplitUid(np.uid).user_id,
     tenant |-> Raw(SplitUid(np.uid).user_tenant),
     display_name |-> Raw(np.display_name),
     email |-> Raw(np.email),
     max_buckets |-> np.max_buckets,
     suspended |-> np.suspended,
     keys |-> <<KeyOf(np)>>]

HasKey(user, ak) == \E i \in 1..Len(user.keys) : user.keys[i].access_key = ak

\* rgw.modify_user(**newuser_params), successful: the arguments that are
\* not None replace the stored fields, a given key pair is added.
ModifiedUser(user, np) ==
    [user EXCEPT
       !.display_name = IF np.display_name = None THEN @ ELSE np.display_name,
       !.email = IF np.email = None THEN @ ELSE np.email,
       !.max_buckets = np.max_buckets,
       !.suspended = np.suspended,
       !.keys = IF "access_key" \in DOMAIN np /\ ~HasKey(user, np.access_key)
                THEN Append(@, KeyOf(np))
                ELSE @]

\* rgw.remove_key(access_key, uid), successful.
UserWithoutKey(user, ak) ==
    [user EXCEPT !.keys = SelectSeq(@, LAMBDA k : k.access_key # ak)]

\* The user infos that may be stored under uid before the first invocation.
StoredUsers(uid) ==
    { [user_id |-> SplitUid(uid).user_id,
       tenant |-> Raw(SplitUid(uid).user_tenant),
       display_name |-> dn, email |-> em,
       max_buckets |-> DefaultMaxBuckets, suspended |-> 0,
       keys |-> ks] :
      dn \in {"Alice", "Bob"}, em \in {"", "a@x"},
      ks \in {<< >>, <<[access_key |-> "K1", secret_key |-> SecretOf("K1")]>>} }

PolicyOfArn(arn) == "my-test-policy"

\* if module.params[...]: None and "" are false.
Truthy(v) == v # None /\ v # ""

Call(op, uid, arg, ok) == [op |-> op, uid |-> uid, arg |-> arg, ok |-> ok]

MutatingOps == {"create_user", "remove_user", "remove_key", "modify_user",
                "create_bucket", "delete_bucket", "create_policy",
                "delete_policy"}

IsMutating(c) == c.op \in MutatingOps

MutatingCalls == SelectSeq(calls, IsMutating)

Backend == [users |-> rgw_users, buckets |-> s3_buckets,
            policies |-> iam_policies]

InitialResult(m) ==
    IF m = "rgw_users"
    THEN [changed |-> FALSE, msg |-> None, error_messages |-> << >>]
    ELSE [changed |-> FALSE, error_messages |-> << >>]

StartPc(m) == IF m = "rgw_users" THEN "probe" ELSE "start"

Done == pc \in {"exit_json", "fail_json", "crash"}

(***************************************************************************)
(* Init                                                                    *)
(***************************************************************************)
Init ==
    /\ module \in {"rgw_users", "rgw_buckets"}
    /\ check_mode \in BOOLEAN
    /\ IF module = "rgw_users"
       THEN /\ params \in UserParams
            /\ diff_mode \in BOOLEAN
            /\ \E u \in StoredUsers(EffectiveUid(params)) \cup {Null} :
                 rgw_users = [x \in Uids |->
                                IF x = EffectiveUid(params) THEN u ELSE Null]
            /\ s3_buckets = {}
            /\ iam_policies = {}
       ELSE /\ params \in BucketParams
            /\ diff_mode \in BOOLEAN
            /\ rgw_users = [x \in Uids |-> Null]
            /\ s3_buckets \in SUBSET {"my-test-bucket"}
            /\ iam_policies \in SUBSET {"my-test-policy"}
    /\ pc = StartPc(module)
    /\ result = InitialResult(module)
    /\ before_user = Null
    /\ calls = << >>
    /\ exc = None
    /\ output = Null
    /\ run = 1
    /\ prev = Null
    /\ pre = Backend

(***************************************************************************)
(* rgw_users.main                                                          *)
(***************************************************************************)
\* Lines 302-314: the connectivity probe, then the desired parameters.
Probe ==
    /\ module = "rgw_users" /\ pc = "probe"
    /\ \E r \in {"ok", "ServerDown", "RGWAdminException"} :
         /\ calls' = Append(calls, Call("get_usage", None, None, r = "ok"))
         /\ IF r = "ok"
            THEN /\ pc' = "get_user"
                 /\ result' = [uid |-> uid_of(params)] @@ result
                 /\ output' = output
            ELSE /\ pc' = "fail_json"
                 /\ result' = result
                 /\ output' = IF r = "ServerDown"
                              THEN [msg |-> "ServerDown"]
                              ELSE [msg |-> "AccessDenied",
                                    error_messages |-> "raw"]
    /\ UNCHANGED <<module, params, check_mode, diff_mode, rgw_users,
                   s3_buckets, iam_policies, before_user, exc, run, prev, pre>>

\* Lines 316-354 up to the first mutating call: get_user, the credential
\* strip, the diff, the check-mode exit and the choice of the apply step.
GetUser ==
    /\ module = "rgw_users" /\ pc = "get_user"
    /\ \E r \in {"answer", "RGWAdminException"} :
         LET stored == rgw_users[result.uid]
             found  == r = "answer" /\ stored # Null
             bu0    == IF found THEN UserOut(stored) ELSE Null
             res0   == IF found THEN EchoKeys(result, stored) ELSE result
             bu     == StripCredentials(params, bu0)
             res1   == DiffStep(res0, params, bu, diff_mode)
             step   == ApplyStep(params, bu, res1.changed)
         IN
         /\ calls' = Append(calls, Call("get_user", result.uid, None, r = "answer"))
         /\ IF r = "RGWAdminException"
            THEN \* get_user catches NoSuchUser only
                 /\ pc' = "crash" /\ exc' = "RGWAdminException"
                 /\ UNCHANGED <<result, before_user, output>>
            ELSE IF StripRaises(params, bu0)
            THEN /\ pc' = "crash" /\ exc' = "KeyError"
                 /\ result' = res0 /\ before_user' = bu0
                 /\ output' = output
            ELSE IF Len(res1.error_messages) > 0
            THEN /\ pc' = "fail_json" /\ exc' = exc
                 /\ result' = res1 /\ before_user' = bu
                 /\ output' = [msg |-> res1.error_messages]
            ELSE IF check_mode
            THEN /\ pc' = "exit_json" /\ exc' = exc
                 /\ result' = res1 /\ before_user' = bu
                 /\ output' = res1
            ELSE /\ pc' = step
                 /\ exc' = IF step = "crash" THEN "KeyError" ELSE exc
                 /\ result' = res1 /\ before_user' = bu
                 /\ output' = output
    /\ UNCHANGED <<module, params, check_mode, diff_mode, rgw_users,
                   s3_buckets, iam_policies, run, prev, pre>>

\* create_user (lines 192-206), called at line 348.
CreateUser ==
    /\ module = "rgw_users" /\ pc = "create_user"
    /\ LET np == newuser_params(params) IN
       \E r \in {"ok", "KeyExists", "RGWAdminException"} :
         /\ r = "ok" => np.display_name # None
         /\ r = "KeyExists" => "access_key" \in DOMAIN np
         /\ calls' = Append(calls, Call("create_user", np.uid,
                                        params.user_access_key, r = "ok"))
         /\ IF r = "ok"
            THEN /\ rgw_users' = [rgw_users EXCEPT ![np.uid] = CreatedUser(np)]
                 /\ result' = EchoNewKeys(result, CreatedUser(np))
            ELSE /\ rgw_users' = rgw_users
                 /\ result' = RecordError(result,
                        IF r = "KeyExists"
                        THEN <<"Access_key not unique", "KeyExists">>
                        ELSE <<"InvalidArgument">>)
    /\ pc' = "final"
    /\ UNCHANGED <<module, params, check_mode, diff_mode, s3_buckets,
                   iam_policies, before_user, exc, output, run, prev, pre>>

\* delete_user (lines 182-189), called at line 350.
DeleteUser ==
    /\ module = "rgw_users" /\ pc = "delete_user"
    /\ \E r \in {"ok", "RGWAdminException"} :
         /\ calls' = Append(calls, Call("remove_user", uid_of(params), None, r = "ok"))
         /\ IF r = "ok"
            THEN /\ rgw_users' = [rgw_users EXCEPT ![uid_of(params)] = Null]
                 /\ result' = result
            ELSE /\ rgw_users' = rgw_users
                 /\ result' = RecordError(result, <<"AccessDenied">>)
    /\ pc' = "final"
    /\ UNCHANGED <<module, params, check_mode, diff_mode, s3_buckets,
                   iam_policies, before_user, exc, output, run, prev, pre>>

\* remove_key (lines 209-216), called at line 353.
RemoveKey ==
    /\ module = "rgw_users" /\ pc = "remove_key"
    /\ LET np  == newuser_params(params)
           old == before_user.access_key IN
       \E r \in {"ok", "RGWAdminException"} :
         /\ calls' = Append(calls, Call("remove_key", np.uid, old, r = "ok"))
         /\ IF r = "ok"
            THEN /\ rgw_users' = [rgw_users EXCEPT
                                    ![np.uid] = UserWithoutKey(@, old)]
                 /\ result' = result
            ELSE /\ rgw_users' = rgw_users
                 /\ result' = RecordError(result, <<"AccessDenied">>)
         /\ pc' = AfterRemoveKey(r = "ok")
    /\ UNCHANGED <<module, params, check_mode, diff_mode, s3_buckets,
                   iam_policies, before_user, exc, output, run, prev, pre>>

\* update_user (lines 219-233), called at line 354.
UpdateUser ==
    /\ module = "rgw_users" /\ pc = "update_user"
    /\ LET np == newuser_params(params) IN
       \E r \in {"ok", "KeyExists", "RGWAdminException"} :
         /\ r = "KeyExists" => "access_key" \in DOMAIN np
         /\ calls' = Append(calls, Call("modify_user", np.uid,
                                        params.user_access_key, r = "ok"))
         /\ IF r = "ok"
            THEN /\ rgw_users' = [rgw_users EXCEPT
                                    ![np.uid] = ModifiedUser(@, np)]
                 /\ result' = EchoNewKeys(result, ModifiedUser(rgw_users[np.uid], np))
            ELSE /\ rgw_users' = rgw_users
                 /\ result' = RecordError(result,
                        IF r = "KeyExists"
                        THEN <<"Access_key not unique", "KeyExists">>
                        ELSE <<"InvalidArgument">>)
    /\ pc' = "final"
    /\ UNCHANGED <<module, params, check_mode, diff_mode, s3_buckets,
                   iam_policies, before_user, exc, output, run, prev, pre>>

\* The last lines of both mains (rgw_users 356-359, rgw_buckets 262-265).
FinalPc(res) ==
    IF Len(res.error_messages) > 0 THEN "fail_json" ELSE "exit_json"

FinalOutput(res) ==
    IF Len(res.error_messages) > 0 THEN [msg |-> res.error_messages] ELSE res

Final ==
    /\ pc = "final"
    /\ pc' = FinalPc(result)
    /\ output' = FinalOutput(result)
    /\ UNCHANGED <<module, params, check_mode, diff_mode, rgw_users,
                   s3_buckets, iam_policies, result, before_user, calls, exc,
                   run, prev, pre>>

(***************************************************************************)
(* rgw_buckets.main                                                        *)
(***************************************************************************)
\* Lines 251-253 and 256-258: the bucket call of the chosen state, if any.
BucketStep(p) ==
    IF Truthy(p.bucket_name)
    THEN IF p.state = "present" THEN "create_bucket" ELSE "delete_bucket"
    ELSE "none"

\* Lines 254-255 and 259-260: the policy call of the chosen state, if any.
PolicyStep(p) ==
    IF p.state = "present"
    THEN IF Truthy(p.policy_name) /\ Truthy(p.policy_document)
         THEN "create_policy" ELSE "final"
    ELSE IF Truthy(p.policy_arn) THEN "delete_policy" ELSE "final"

\* Lines 199-251: the module and the two clients are built (no request is
\* sent); check_mode is not read anywhere in this main.
BucketsStart ==
    /\ module = "rgw_buckets" /\ pc = "start"
    /\ pc' = IF BucketStep(params) = "none" THEN PolicyStep(params)
             ELSE BucketStep(params)
    /\ UNCHANGED <<module, params, check_mode, diff_mode, rgw_users,
                   s3_buckets, iam_policies, result, before_user, calls, exc,
                   output, run, prev, pre>>

\* The try bodies of the four helpers: changed is set after the call.
MarkChanged(res) == [res EXCEPT !.changed = TRUE]

\* Variant: the except clause swallows the error.
AppendErrorDropped(res, m) == res

\* The except clauses of the four helpers.
AppendError(res, m) == [res EXCEPT !.error_messages = Append(@, m)]

\* create_bucket (lines 168-173).
CreateBucket ==
    /\ module = "rgw_buckets" /\ pc = "create_bucket"
    /\ \E r \in {"ok", "ClientError"} :
         /\ calls' = Append(calls, Call("create_bucket", None,
                                        params.bucket_name, r = "ok"))
         /\ IF r = "ok"
            THEN /\ s3_buckets' = s3_buckets \cup {params.bucket_name}
                 /\ result' = MarkChanged(result)
            ELSE /\ s3_buckets' = s3_buckets
                 /\ result' = AppendError(result, "ClientError: CreateBucket")
    /\ pc' = PolicyStep(params)
    /\ UNCHANGED <<module, params, check_mode, diff_mode, rgw_users,
                   iam_policies, before_user, exc, output, run, prev, pre>>

\* delete_bucket (lines 175-180); deleting a missing bucket is NoSuchBucket.
DeleteBucket ==
    /\ module = "rgw_buckets" /\ pc = "delete_bucket"
    /\ \E r \in {"ok", "ClientError"} :
         /\ r = "ok" => params.bucket_name \in s3_buckets
         /\ calls' = Append(calls, Call("delete_bucket", None,
                                        params.bucket_name, r = "ok"))
         /\ IF r = "ok"
            THEN /\ s3_buckets' = s3_buckets \ {params.bucket_name}
                 /\ result' = MarkChanged(result)
            ELSE /\ s3_buckets' = s3_buckets
                 /\ result' = AppendError(result, "ClientError: DeleteBucket")
    /\ pc' = PolicyStep(params)
    /\ UNCHANGED <<module, params, check_mode, diff_mode, rgw_users,
                   iam_policies, before_user, exc, output, run, prev, pre>>

\* create_policy (lines 182-190); an existing name is EntityAlreadyExists.
CreatePolicy ==
    /\ module = "rgw_buckets" /\ pc = "create_policy"
    /\ \E r \in {"ok", "ClientError"} :
         /\ r = "ok" => params.policy_name \notin iam_policies
         /\ calls' = Append(calls, Call("create_policy", None,
                                        params.policy_name, r = "ok"))
         /\ IF r = "ok"
            THEN /\ iam_policies' = iam_policies \cup {params.policy_name}
                 /\ result' = MarkChanged(result)
            ELSE /\ iam_policies' = iam_policies
                 /\ result' = AppendError(result, "ClientError: CreatePolicy")
    /\ pc' = "final"
    /\ UNCHANGED <<module, params, check_mode, diff_mode, rgw_users,
                   s3_buckets, before_user, exc, output, run, prev, pre>>

\* delete_policy (lines 192-197); a missing policy is NoSuchEntity.
DeletePolicy ==
    /\ module = "rgw_buckets" /\ pc = "delete_policy"
    /\ \E r \in {"ok", "ClientError"} :
         /\ r = "ok" => PolicyOfArn(params.policy_arn) \in iam_policies
         /\ calls' = Append(calls, Call("delete_policy", None,
                                        params.policy_arn, r = "ok"))
         /\ IF r = "ok"
            THEN /\ iam_policies' = iam_policies \ {PolicyOfArn(params.policy_arn)}
                 /\ result' = MarkChanged(result)
            ELSE /\ iam_policies' = iam_policies
                 /\ result' = AppendError(result, "ClientError: DeletePolicy")
    /\ pc' = "final"
    /\ UNCHANGED <<module, params, check_mode, diff_mode, rgw_users,
                   s3_buckets, before_user, exc, output, run, prev, pre>>

(***************************************************************************)
(* The next invocation: the same module with the same parameters, against  *)
(* the backend as the previous invocation left it.                         *)
(***************************************************************************)
Rerun ==
    /\ Done /\ run < MaxRuns
    /\ prev' = [pc |-> pc, changed |-> result.changed,
                mutated |-> Len(MutatingCalls) > 0]
    /\ run' = run + 1
    /\ pc' = StartPc(module)
    /\ result' = InitialResult(module)
    /\ before_user' = Null
    /\ calls' = << >>
    /\ exc' = None
    /\ output' = Null
    /\ pre' = Backend
    /\ UNCHANGED <<module, params, check_mode, diff_mode, rgw_users,
                   s3_buckets, iam_policies>>

Next ==
    \/ Probe
    \/ GetUser
    \/ CreateUser
    \/ DeleteUser
    \/ RemoveKey
    \/ UpdateUser
    \/ BucketsStart
    \/ CreateBucket
    \/ DeleteBucket
    \/ CreatePolicy
    \/ DeletePolicy
    \/ Final
    \/ Rerun

Spec == Init /\ [][Next]_vars

TypeOK ==
    /\ module \in {"rgw_users", "rgw_buckets"}
    /\ pc \in {"probe", "get_user", "create_user", "delete_user",
               "remove_key", "update_user", "start", "create_bucket",
               "delete_bucket", "create_policy", "delete_policy", "final",
               "exit_json", "fail_json", "crash"}
    /\ run \in 1..MaxRuns
    /\ result.changed \in BOOLEAN

(***************************************************************************)
(* Properties                                                              *)
(***************************************************************************)
\* The user stored under the desired uid when this invocation started.
ObservedAtStart == pre.users[EffectiveUid(params)]

\* Does the resource that the parameters name exist when the invocation
\* starts?
ResourceMissingAtStart ==
    IF module = "rgw_users"
    THEN ObservedAtStart = Null
    ELSE /\ Truthy(params.bucket_name) => params.bucket_name \notin pre.buckets
         /\ Truthy(params.policy_arn) =>
               PolicyOfArn(params.policy_arn) \notin pre.policies

\* The observed user and the desired user agree on every field other than
\* the credentials.
PlainFieldsMatch ==
    /\ ObservedAtStart # Null
    /\ UserOut(ObservedAtStart).user_id = params.user_id
    /\ UserOut(ObservedAtStart).tenant = params.user_tenant
    /\ UserOut(ObservedAtStart).display_name = params.user_display_name
    /\ UserOut(ObservedAtStart).email = params.user_email
    /\ UserOut(ObservedAtStart).max_buckets = params.user_max_buckets
    /\ UserOut(ObservedAtStart).suspended = params.user_suspended

\* ... and on the credentials, when the desired user specifies them.
CredentialsMatch ==
    \/ params.user_access_key = None
    \/ /\ ObservedAtStart # Null
       /\ Len(ObservedAtStart.keys) > 0
       /\ ObservedAtStart.keys[1].access_key = params.user_access_key
       /\ ObservedAtStart.keys[1].secret_key = params.user_secret_key

\* The normalized observed state differs from the normalized desired state.
StatesDiffer ==
    IF params.state = "absent"
    THEN ObservedAtStart # Null
    ELSE ~(PlainFieldsMatch /\ CredentialsMatch)

\* C1: an invocation that follows, with the same parameters, an invocation
\* that completed without error and wrote to the backend reports
\* changed=false.
C1_Idempotent ==
    (run > 1 /\ ~check_mode /\ prev.pc = "exit_json" /\ pc = "exit_json")
        => ~output.changed

\* C2: in check mode no mutating call is issued to the backend.
C2_DryRunNeverMutates ==
    check_mode => Len(MutatingCalls) = 0

\* C3: state=absent with no existing resource issues no mutating call,
\* reports changed=false and records no error.
C3_AbsentMissingIsNoop ==
    (params.state = "absent" /\ ResourceMissingAtStart)
        => /\ Len(MutatingCalls) = 0
           /\ ~result.changed
           /\ Len(result.error_messages) = 0

\* C4: the changed flag that a user invocation reports is true exactly when
\* the normalized observed state differs from the normalized desired state.
C4_ChangedIffDiffers ==
    (module = "rgw_users" /\ pc = "exit_json")
        => (output.changed <=> StatesDiffer)

\* The case of C5: a real run for state=present finds the user with a first
\* access key other than the desired one.
KeyChangeCase ==
    /\ module = "rgw_users"
    /\ params.state = "present"
    /\ ~check_mode
    /\ params.user_access_key # None
    /\ ObservedAtStart # Null
    /\ Len(ObservedAtStart.keys) > 0
    /\ ObservedAtStart.keys[1].access_key # params.user_access_key

\* The invocation read the user and ran to its last line.
CompletedAfterRead ==
    /\ pc \in {"exit_json", "fail_json"}
    /\ \E i \in 1..Len(calls) : calls[i].op = "get_user" /\ calls[i].ok

\* C5: a credential change on an existing user issues exactly two mutating
\* calls, remove_key for the old access key and then modify_user with the
\* new parameters, also when remove_key fails.
C5_RevokeThenUpdate ==
    KeyChangeCase =>
        /\ Len(MutatingCalls) <= 2
        /\ Len(MutatingCalls) >= 1 =>
              /\ MutatingCalls[1].op = "remove_key"
              /\ MutatingCalls[1].arg = ObservedAtStart.keys[1].access_key
        /\ Len(MutatingCalls) = 2 =>
              /\ MutatingCalls[2].op = "modify_user"
              /\ MutatingCalls[2].arg = params.user_access_key
        /\ CompletedAfterRead => Len(MutatingCalls) = 2

C5_Witness ==
    /\ KeyChangeCase
    /\ pc = "fail_json"
    /\ Len(MutatingCalls) = 2
    /\ ~MutatingCalls[1].ok
    /\ MutatingCalls[2].op = "modify_user"

UserScopedOps == {"get_user", "create_user", "remove_user", "remove_key",
                  "modify_user"}

\* C6: every user-scoped backend call of an invocation is passed the same
\* uid, tenant$user_id when a tenant is set and user_id otherwise.
C6_OneUidPerInvocation ==
    \A i \in 1..Len(calls) :
        calls[i].op \in UserScopedOps =>
            /\ calls[i].uid = IF params.user_tenant = None
                              THEN params.user_id
                              ELSE params.user_tenant \o "$" \o params.user_id
            /\ \A j \in 1..Len(calls) :
                  calls[j].op \in UserScopedOps => calls[j].uid = calls[i].uid

C6_Witness ==
    /\ module = "rgw_users"
    /\ params.user_tenant = "t1"
    /\ Len(calls) = 4
    /\ calls[2].op = "get_user" /\ calls[2].uid = "t1$alice"
    /\ calls[3].op = "remove_key" /\ calls[3].uid = "t1$alice"
    /\ calls[4].op = "modify_user" /\ calls[4].uid = "t1$alice"

\* C7: with user_access_key unspecified, an existing user whose other
\* normalized fields equal the desired ones is reported unchanged, whatever
\* credentials the backend stores for it.
C7_UnmanagedCredentialsIgnored ==
    (/\ module = "rgw_users"
     /\ params.state = "present"
     /\ params.user_access_key = None
     /\ PlainFieldsMatch
     /\ Len(ObservedAtStart.keys) > 0
     /\ pc = "exit_json")
        => ~output.changed

FailedMutatingCalls == SelectSeq(MutatingCalls, LAMBDA c : ~c.ok)

C9_FetchFailureRecorded ==
    (Len(calls) > 0 /\ calls[Len(calls)].op = "get_user"
                    /\ ~calls[Len(calls)].ok)
        => /\ pc = "fail_json"
           /\ Len(result.error_messages) > 0
           /\ Len(MutatingCalls) = 0

\* The diff of C10: the observed state before, the desired state (null for
\* state=absent) after.
ExpectedDiff ==
    [before |-> before_user,
     after  |-> IF params.state = "present"
                THEN newuser_params_wo_caps(params) ELSE Null]

\* C10 as stated: whenever a diff is requested the reported result carries
\* it.
C10_DiffWheneverRequested ==
    (diff_mode /\ pc = "exit_json")
        => /\ "diff" \in DOMAIN output
           /\ output.diff = ExpectedDiff

\* C10 as amended: the result of rgw_users carries the diff exactly when a
\* diff is requested and changed is true, in check mode and in a real run
\* alike; rgw_buckets never attaches one.
C10_DiffWhenChanged ==
    /\ module = "rgw_buckets" => "diff" \notin DOMAIN result
    /\ module = "rgw_users" =>
          /\ "diff" \in DOMAIN result <=> (diff_mode /\ result.changed)
          /\ "diff" \in DOMAIN result => result.diff = ExpectedDiff
          /\ pc = "exit_json" => output = result

C10_Witness ==
    /\ module = "rgw_users"
    /\ diff_mode /\ check_mode
    /\ params.state = "absent"
    /\ pc = "exit_json"
    /\ "diff" \in DOMAIN output
    /\ output.diff.before # Null
    /\ output.diff.after = Null

\* C11: whatever user the backend returns, also one whose key list is
\* empty, the user reconciliation never ends through an unhandled KeyError
\* on the access_key of the observed state (lines 320 and 352).
C11_NoKeyErrorOnObservedUser ==
    module = "rgw_users" => ~(pc = "crash" /\ exc = "KeyError")

====
